---- MODULE Spec2Model ----
(***************************************************************************)
(* Wrappers around the Managed Blockchain administration and query APIs.   *)
(* One caller invokes one wrapper method at a time; the wrapper assembles  *)
(* a request, the remote operation returns a response or raises, and the   *)
(* wrapper converts the outcome into the value (or exception) the caller   *)
(* sees.  Python dictionaries are functions over their keys, lists are     *)
(* sequences, and every value handed to the caller carries its type tag.   *)
(***************************************************************************)
EXTENDS Integers, Sequences, FiniteSets, TLC

\* Largest number of pages a remote listing holds.
MaxPages == 2
\* Largest number of items on one page.
MaxPageLen == 2
\* Largest number of times a caller invokes a create_* method in a row.
MaxCalls == 2
\* Largest max_attempts a caller passes to a wait_for_* method.
MaxAttempts == 2

----------------------------------------------------------------------------
(* Python values *)

NoneVal == "<None>"

\* `if next_token:` -- None and the empty string are falsy.
Truthy(s) == s # NoneVal /\ s # ""

\* `k in d`
HasKey(d, k) == k \in DOMAIN d

\* `d.get(k, default)`
DictGet(d, k, default) == IF k \in DOMAIN d THEN d[k] ELSE default

EmptyDict == <<>>

\* A dictionary with the single entry k: v.
Dict1(k, v) == [x \in {k} |-> v]

\* `xs.extend(ys)`
Extend(xs, ys) == xs \o ys

----------------------------------------------------------------------------
(* Exceptions *)

\* The error kinds the administration service reports, by error code.
RemoteServiceErrors ==
    { "InvalidRequestException", "AccessDeniedException",
      "ResourceNotFoundException", "ThrottlingException",
      "ResourceLimitExceededException", "InternalServiceErrorException" }

\* Every error code for which the administration client has an exception class.
ModeledErrors ==
    RemoteServiceErrors \cup
    { "ResourceAlreadyExistsException", "ResourceNotReadyException",
      "TooManyTagsException" }

\* The error codes the query service reports.
QueryErrors == { "ValidationException", "ThrottlingException" }

\* An error code no client has a class for: raised as a plain ClientError.
UnmodeledCode == "ExpiredTokenException"

\* botocore.exceptions.ClientError raised for error code `code` by operation
\* `op`; the client raises the class it has for the code, else ClientError.
ClientError(code, op, modeled) ==
    [ cls  |-> IF code \in modeled THEN code ELSE "ClientError",
      base |-> "ClientError", code |-> code, op |-> op ]

\* A botocore.exceptions.BotoCoreError (the endpoint could not be reached).
BotoCoreError(op) ==
    [ cls |-> "EndpointConnectionError", base |-> "BotoCoreError",
      code |-> "", op |-> op ]

\* An exception of a builtin class raised by the wrapper's own code.
Builtin(cls, op) == [ cls |-> cls, base |-> cls, code |-> "", op |-> op ]

NoExc == [ cls |-> "", base |-> "", code |-> "", op |-> "" ]

\* isinstance(e, c): what an `except c` clause matches.
IsInstance(e, c) == c = e.cls \/ c = e.base \/ c = "Exception"

\* str(e), as the pieces botocore formats it from.
StrOf(e) ==
    IF e.base = "ClientError"
    THEN << "An error occurred (", e.code, ") when calling the ", e.op,
            " operation" >>
    ELSE << "Could not connect to the endpoint URL" >>

Contains(text, piece) == \E i \in DOMAIN text : text[i] = piece

----------------------------------------------------------------------------
(* What a call hands to its caller *)

Returned(ty, v) == [ kind |-> "return", ty |-> ty, v |-> v, exc |-> NoExc ]
Raised(e) == [ kind |-> "raise", ty |-> "NoneType", v |-> NoneVal, exc |-> e ]
NoResult == [ kind |-> "", ty |-> "NoneType", v |-> NoneVal, exc |-> NoExc ]

----------------------------------------------------------------------------
(* The wrapper methods: remote operation, except clauses, return statements *)

\* kind: "call" for a method that makes one remote call; name: the method; svc: which client it holds; op: the remote operation;
\* catches: the classes of its except clauses (empty: no try statement);
\* ok: what it returns from a response ("response": the response itself,
\* "get": response.get(key, {}), "index": response[key], "true": True);
\* fail: what it returns once an except clause has matched;
\* pre: the exception its own code raises before the remote call, if any;
\* paged: whether the remote operation returns its result page by page;
\* tokenArg: whether the method has a next_token parameter.
Method(name, svc, op, catches, ok, key, fail) ==
    [ kind |-> "call", name |-> name, svc |-> svc, op |-> op,
      catches |-> catches, ok |-> ok, key |-> key, fail |-> fail, pre |-> "", paged |-> FALSE,
      tokenArg |-> FALSE ]

ListMethod(name, svc, op, catches, key, fail) ==
    [ Method(name, svc, op, catches, "response", key, fail)
        EXCEPT !.paged = TRUE, !.tokenArg = TRUE ]

\* The except clauses shared by the get_* and delete_accessor methods.
ReadCatches ==
    { "InvalidRequestException", "AccessDeniedException",
      "ResourceNotFoundException", "ThrottlingException",
      "InternalServiceErrorException" }

create_accessor ==
    Method("create_accessor", "admin", "create_accessor",
           { "InvalidRequestException", "AccessDeniedException",
             "ResourceAlreadyExistsException", "ThrottlingException",
             "ResourceLimitExceededException", "InternalServiceErrorException",
             "TooManyTagsException" },
           "response", "AccessorId", "None")

delete_accessor ==
    Method("delete_accessor", "admin", "delete_accessor", ReadCatches,
           "response", "", "None")

get_accessor ==
    Method("get_accessor", "admin", "get_accessor", ReadCatches,
           "get", "Accessor", "None")

list_accessors ==
    ListMethod("list_accessors", "admin", "list_accessors",
               { "BotoCoreError" }, "Accessors", "dict")

\* members.py never imports uuid, so str(uuid.uuid4()) raises NameError while
\* the arguments of self.client.create_member(...) are being evaluated.
create_member ==
    [ Method("create_member", "admin", "create_member",
             { "InvalidRequestException", "AccessDeniedException",
               "ResourceNotFoundException", "ResourceAlreadyExistsException",
               "ResourceNotReadyException", "ThrottlingException",
               "ResourceLimitExceededException",
               "InternalServiceErrorException", "TooManyTagsException" },
             "response", "MemberId", "None")
        EXCEPT !.pre = "NameError" ]

\* get_member with the except clause of list_members instead of its own.
get_member_catching_BotoCoreError ==
    Method("get_member", "admin", "get_member", { "BotoCoreError" },
           "get", "Member", "None")

get_member ==
    Method("get_member", "admin", "get_member", ReadCatches,
           "get", "Member", "None")

list_members ==
    ListMethod("list_members", "admin", "list_members",
               { "BotoCoreError" }, "Members", "dict")

delete_member ==
    Method("delete_member", "admin", "delete_member",
           ReadCatches \cup { "ResourceNotReadyException" },
           "response", "", "None")

update_member ==
    Method("update_member", "admin", "update_member", { "BotoCoreError" },
           "true", "", "False")

list_networks ==
    ListMethod("list_networks", "admin", "list_networks",
               { "BotoCoreError" }, "Networks", "dict")

get_network ==
    Method("get_network", "admin", "get_network", ReadCatches,
           "get", "Network", "None")

create_network ==
    Method("create_network", "admin", "create_network",
           { "InvalidRequestException", "AccessDeniedException",
             "ResourceAlreadyExistsException", "ThrottlingException",
             "ResourceLimitExceededException", "InternalServiceErrorException",
             "TooManyTagsException" },
           "response", "NetworkId", "None")

delete_network ==
    Method("delete_network", "admin", "delete_network", ReadCatches,
           "true", "", "False")

create_node ==
    Method("create_node", "admin", "create_node",
           { "InvalidRequestException", "AccessDeniedException",
             "ResourceNotFoundException", "ResourceAlreadyExistsException",
             "ResourceNotReadyException", "ThrottlingException",
             "ResourceLimitExceededException",
             "InternalServiceErrorException", "TooManyTagsException" },
           "response", "NodeId", "None")

get_node ==
    Method("get_node", "admin", "get_node", ReadCatches,
           "get", "Node", "None")

list_nodes ==
    ListMethod("list_nodes", "admin", "list_nodes",
               { "BotoCoreError" }, "Nodes", "dict")

delete_node ==
    Method("delete_node", "admin", "delete_node",
           ReadCatches \cup { "ResourceNotReadyException" },
           "response", "", "None")

update_node ==
    Method("update_node", "admin", "update_node", { "BotoCoreError" },
           "true", "", "False")

list_invitations ==
    ListMethod("list_invitations", "admin", "list_invitations",
               { "BotoCoreError" }, "Invitations", "dict")

reject_invitation ==
    Method("reject_invitation", "admin", "reject_invitation",
           { "BotoCoreError" }, "true", "", "False")

list_tags_for_resource ==
    Method("list_tags_for_resource", "admin", "list_tags_for_resource",
           { "BotoCoreError" }, "get", "Tags", "dict")

tag_resource ==
    Method("tag_resource", "admin", "tag_resource", { "BotoCoreError" },
           "true", "", "False")

untag_resource ==
    Method("untag_resource", "admin", "untag_resource", { "BotoCoreError" },
           "true", "", "False")

\* An optional list argument: None, or a list of identifiers.
NoList == << >>
SomeList(xs) == << xs >>

\* `if invitations is not None:` in place of `if invitations:`.
ListTruthy_not_None(o) == o # NoList

\* `if invitations:` for an optional list: neither None nor empty.
ListTruthy(o) == o # NoList /\ Len(o[1]) > 0

\* The `actions` dictionary create_proposal assembles from its arguments.
Actions(invitations, removals) ==
    [ k \in (IF ListTruthy(invitations) THEN { "Invitations" } ELSE { })
            \cup (IF ListTruthy(removals) THEN { "Removals" } ELSE { }) |->
        IF k = "Invitations"
        THEN [ i \in DOMAIN invitations[1] |->
                 [ Principal |-> invitations[1][i] ] ]
        ELSE [ i \in DOMAIN removals[1] |->
                 [ MemberId |-> removals[1][i] ] ] ]

\* create_proposal called with the given arguments: `if not actions: raise
\* ValueError(...)` inside the try body, before the remote call.
create_proposal(network_id, member_id, invitations, removals) ==
    [ network_id |-> network_id, member_id |-> member_id,
      invitations |-> invitations, removals |-> removals ] @@
    [ Method("create_proposal", "admin", "create_proposal",
             { "InvalidRequestException", "AccessDeniedException",
               "ResourceNotFoundException", "ResourceNotReadyException",
               "ThrottlingException", "InternalServiceErrorException",
               "TooManyTagsException" },
             "response", "ProposalId", "None")
        EXCEPT !.pre = IF Actions(invitations, removals) = EmptyDict
                       THEN "ValueError" ELSE "" ]

\* A check that lets every vote value through.
ValidVote_any(vote) == TRUE

\* `vote in ["YES", "NO"]`
ValidVote(vote) == vote \in { "YES", "NO" }

\* vote_on_proposal called with the given vote: True after the remote call,
\* False from `except botocore.exceptions.BotoCoreError`.
vote_on_proposal(vote) ==
    [ vote |-> vote ] @@
    Method("vote_on_proposal", "admin", "vote_on_proposal",
           { "BotoCoreError" }, "true", "", "False")

get_proposal ==
    Method("get_proposal", "admin", "get_proposal", { "ClientError" },
           "get", "Proposal", "None")

list_proposals ==
    ListMethod("list_proposals", "admin", "list_proposals",
               { "BotoCoreError" }, "Proposals", "dict")

list_proposal_votes ==
    ListMethod("list_proposal_votes", "admin", "list_proposal_votes",
               { "BotoCoreError" }, "ProposalVotes", "dict")

\* ManagedBlockchain (managed_blockchain.py): no try statement at all.
ManagedBlockchain_list_networks ==
    [ ListMethod("ManagedBlockchain.list_networks", "admin", "list_networks",
                 {}, "Networks", "dict")
        EXCEPT !.tokenArg = FALSE ]

ManagedBlockchain_get_transaction ==
    Method("ManagedBlockchain.get_transaction", "admin", "get_transaction",
           {}, "index", "transaction", "None")

get_asset_contract ==
    Method("get_asset_contract", "query", "get_asset_contract",
           { "ClientError" }, "response", "contract", "None")

get_token_balance ==
    Method("get_token_balance", "query", "get_token_balance",
           { "BotoCoreError" }, "response", "balance", "dict")

list_filtered_transaction_events ==
    ListMethod("list_filtered_transaction_events", "query",
               "list_filtered_transaction_events",
               { "ClientError", "BotoCoreError" }, "events", "error")

list_token_balances ==
    ListMethod("list_token_balances", "query", "list_token_balances",
               { "ClientError", "BotoCoreError" }, "tokenBalances", "error")

list_transaction_events ==
    ListMethod("list_transaction_events", "query", "list_transaction_events",
               { "ClientError", "BotoCoreError" }, "events", "error")

\* list_transactions without its `except botocore.exceptions.ClientError`.
list_transactions_without_ClientError ==
    ListMethod("list_transactions", "query", "list_transactions",
               { "BotoCoreError" }, "transactions", "error")

list_transactions ==
    ListMethod("list_transactions", "query", "list_transactions",
               { "ClientError", "BotoCoreError" }, "transactions", "error")

\* A get_all_* method: the list_* method it calls in its loop and the
\* response entry it collects.
GetAll(name, list, key) ==
    [ kind |-> "get_all", name |-> name, list |-> list, key |-> key ]

get_all_accessors == GetAll("get_all_accessors", list_accessors, "Accessors")

get_all_invitations ==
    GetAll("get_all_invitations", list_invitations, "Invitations")

get_all_members == GetAll("get_all_members", list_members, "Members")

get_all_networks == GetAll("get_all_networks", list_networks, "Networks")

get_all_nodes == GetAll("get_all_nodes", list_nodes, "Nodes")

get_all_proposals == GetAll("get_all_proposals", list_proposals, "Proposals")

get_all_proposal_votes ==
    GetAll("get_all_proposal_votes", list_proposal_votes, "ProposalVotes")

GetAllMethods ==
    { get_all_accessors, get_all_invitations, get_all_members,
      get_all_networks, get_all_nodes, get_all_proposals,
      get_all_proposal_votes }

\* A paginate_list_* method without its `except botocore.exceptions.ClientError`.
Paginate_without_ClientError(name, op, key) ==
    [ kind |-> "paginate", name |-> name, svc |-> "query", op |-> op,
      key |-> key, catches |-> { "BotoCoreError" },
      fail |-> "error", paged |-> TRUE ]

\* A paginate_list_* method of the query paginator: the operation it obtains
\* an SDK paginator for, the page entry it collects, its except clauses and
\* what it returns once one has matched.
Paginate(name, op, key) ==
    [ kind |-> "paginate", name |-> name, svc |-> "query", op |-> op,
      key |-> key, catches |-> { "ClientError", "BotoCoreError" },
      fail |-> "error", paged |-> TRUE ]

paginate_list_asset_contracts ==
    Paginate("paginate_list_asset_contracts", "list_asset_contracts",
             "contracts")

paginate_list_filtered_transaction_events ==
    Paginate("paginate_list_filtered_transaction_events",
             "list_filtered_transaction_events", "events")

paginate_list_token_balances ==
    Paginate("paginate_list_token_balances", "list_token_balances",
             "tokenBalances")

paginate_list_transaction_events ==
    Paginate("paginate_list_transaction_events", "list_transaction_events",
             "events")

paginate_list_transactions ==
    Paginate("paginate_list_transactions", "list_transactions",
             "transactions")

\* The letters, lower case and upper case.
Lowercase ==
    << "a", "b", "c", "d", "e", "f", "g", "h", "i", "j", "k", "l", "m",
       "n", "o", "p", "q", "r", "s", "t", "u", "v", "w", "x", "y", "z" >>

Uppercase ==
    << "A", "B", "C", "D", "E", "F", "G", "H", "I", "J", "K", "L", "M",
       "N", "O", "P", "Q", "R", "S", "T", "U", "V", "W", "X", "Y", "Z" >>

\* `c.upper()` and `c.lower()` of one character.
Upper(c) ==
    IF \E i \in DOMAIN Lowercase : Lowercase[i] = c
    THEN Uppercase[CHOOSE i \in DOMAIN Lowercase : Lowercase[i] = c]
    ELSE c

Lower(c) ==
    IF \E i \in DOMAIN Uppercase : Uppercase[i] = c
    THEN Lowercase[CHOOSE i \in DOMAIN Uppercase : Uppercase[i] = c]
    ELSE c

\* `str.capitalize()`: the first character upper-cased, the rest lower-cased.
Capitalize(chars) ==
    [ i \in DOMAIN chars |-> IF i = 1 THEN Upper(chars[i]) ELSE Lower(chars[i]) ]

\* The operation names a caller passes to paginate_operation and the entries
\* of the pages of those operations.
KnownStrings ==
    { "list_networks", "list_members", "get_network", "Networks", "Members" }

\* The characters of a string.
Spell(str) ==
    CASE str = "list_networks" ->
            << "l", "i", "s", "t", "_", "n", "e", "t", "w", "o", "r", "k", "s" >>
      [] str = "list_members" ->
            << "l", "i", "s", "t", "_", "m", "e", "m", "b", "e", "r", "s" >>
      [] str = "get_network" ->
            << "g", "e", "t", "_", "n", "e", "t", "w", "o", "r", "k" >>
      [] str = "Networks" -> << "N", "e", "t", "w", "o", "r", "k", "s" >>
      [] str = "Members" -> << "M", "e", "m", "b", "e", "r", "s" >>

\* A string no page has an entry for.
OtherString == "<another string>"

\* The string of the given characters.
Text(chars) ==
    IF \E str \in KnownStrings : Spell(str) = chars
    THEN CHOOSE str \in KnownStrings : Spell(str) = chars
    ELSE OtherString

\* paginate_operation(operation_name) of the administration paginator:
\* it collects `page.get(operation_name.capitalize(), [])` and, on any
\* exception in the loop, returns the results collected so far.
paginate_operation(operation_name) ==
    [ kind |-> "paginate", name |-> "paginate_operation", svc |-> "admin",
      op |-> operation_name,
      key |-> Text(Capitalize(Spell(operation_name))),
      catches |-> { "Exception" }, fail |-> "results", paged |-> TRUE ]

PaginateMethods ==
    { paginate_list_asset_contracts, paginate_list_filtered_transaction_events,
      paginate_list_token_balances, paginate_list_transaction_events,
      paginate_list_transactions }

\* A wait_for_* method called with max_attempts: the SDK waiter it obtains,
\* the operation that waiter polls, its except clause, and the `return False`
\* that follows it.
Wait(name, waiter, op, max_attempts) ==
    [ kind |-> "wait", name |-> name, svc |-> "admin", waiter |-> waiter,
      op |-> op, catches |-> { "WaiterError" }, fail |-> "False",
      max_attempts |-> max_attempts ]

wait_for_network_available(max_attempts) ==
    Wait("wait_for_network_available", "network_available", "get_network",
         max_attempts)

wait_for_member_available(max_attempts) ==
    Wait("wait_for_member_available", "member_available", "get_member",
         max_attempts)

wait_for_node_available(max_attempts) ==
    Wait("wait_for_node_available", "node_available", "get_node",
         max_attempts)

\* The module managed_blockchain_admin: the names its import statements
\* bind (it has none) and the methods its class ManagedBlockchainAdmin
\* defines.
ManagedBlockchainAdmin ==
    [ imports |-> { }, methods |-> { "__init__", "create_network" } ]

\* ManagedBlockchainAdmin.create_network: no try statement, and
\* `return response["NetworkId"]`.
ManagedBlockchainAdmin_create_network ==
    Method("ManagedBlockchainAdmin.create_network", "admin", "create_network",
           {}, "index", "NetworkId", "")

AdminMethods ==
    { create_accessor, delete_accessor, get_accessor, list_accessors,
      create_member, get_member, list_members, delete_member, update_member,
      list_networks, get_network, create_network, delete_network,
      create_node, get_node, list_nodes, delete_node, update_node,
      list_invitations, reject_invitation,
      list_tags_for_resource, tag_resource, untag_resource,
      get_proposal, list_proposals, list_proposal_votes,
      ManagedBlockchain_list_networks, ManagedBlockchain_get_transaction }

\* The request_payload get_transaction of the query wrapper assembles.
Payload(network, transaction_hash, transaction_id) ==
    [ k \in { "network" }
            \cup (IF Truthy(transaction_hash) THEN { "transactionHash" } ELSE { })
            \cup (IF Truthy(transaction_id)
                    /\ network \in { "BITCOIN_MAINNET", "BITCOIN_TESTNET" }
                 THEN { "transactionId" } ELSE { }) |->
        CASE k = "network" -> network
          [] k = "transactionHash" -> transaction_hash
          [] k = "transactionId" -> transaction_id ]

\* get_transaction of the query wrapper called with the given arguments:
\* `raise ValueError(...)` ahead of the try statement when neither identifier
\* is given.
get_transaction(network, transaction_hash, transaction_id) ==
    [ network |-> network, transaction_hash |-> transaction_hash,
      transaction_id |-> transaction_id ] @@
    [ Method("get_transaction", "query", "get_transaction",
             { "BotoCoreError" }, "response", "transaction", "dict")
        EXCEPT !.pre = IF ~Truthy(transaction_hash) /\ ~Truthy(transaction_id)
                       THEN "ValueError" ELSE "" ]

QueryMethods ==
    { get_asset_contract, get_token_balance, list_filtered_transaction_events,
      list_token_balances, list_transaction_events, list_transactions }

Methods == AdminMethods \cup QueryMethods

\* The name of the continuation token in a request and in a response.
TokenKey(m) == IF m.svc = "admin" THEN "NextToken" ELSE "nextToken"

\* A try body returning only the entry named by the method's key.
OnSuccess_dropping_token(m, response) ==
    Returned("dict", [ k \in DOMAIN response \cap { m.key } |-> response[k] ])

\* The `return` of the try body, given the remote response.
OnSuccess(m, response) ==
    CASE m.ok = "response" -> Returned("dict", response)
      [] m.ok = "get" -> Returned("dict", DictGet(response, m.key, EmptyDict))
      [] m.ok = "index" ->
            IF HasKey(response, m.key)
            THEN Returned("dict", response[m.key])
            ELSE Raised(Builtin("KeyError", m.op))
      [] m.ok = "true" -> Returned("bool", TRUE)

\* The `return` reached once an except clause has matched e.
OnCaught(m, e) ==
    CASE m.fail = "None" -> Returned("NoneType", NoneVal)
      [] m.fail = "False" -> Returned("bool", FALSE)
      [] m.fail = "dict" -> Returned("dict", EmptyDict)
      [] m.fail = "error" -> Returned("dict", Dict1("error", StrOf(e)))

\* A method without except clauses: every exception propagates.
Handle_propagating(m, e) == Raised(e)

\* An exception raised inside the method: the first matching except clause
\* handles it; with none matching it propagates to the caller.
Handle(m, e) ==
    IF \E c \in m.catches : IsInstance(e, c) THEN OnCaught(m, e) ELSE Raised(e)

----------------------------------------------------------------------------
(* The remote service *)

Absent == "<absent>"

TokenNames == << "tok-1", "tok-2", "tok-3", "tok-4", "tok-5" >>

\* The continuation token that names page i of a listing.
Tok(i) == TokenNames[i]

\* The items of page i: each item of a listing is a different object.
PageItems(i, count) == [ j \in 1..count |-> << i, j >> ]

\* One page of a listing: `count` items under itemKey (count = -1: the page
\* has no such entry) and the token under tokenKey (Absent: no such entry).
Page(i, itemKey, count, tokenKey, token) ==
    [ k \in (IF count >= 0 THEN { itemKey } ELSE {}) \cup
            (IF token = Absent THEN {} ELSE { tokenKey }) |->
        IF k = itemKey /\ count >= 0 THEN PageItems(i, count) ELSE token ]

\* The listings the remote may hold: 1..MaxPages pages, every page but the
\* last carrying the token of the page after it, the last page carrying no
\* token, None or the empty string.
Listings(itemKey, tokenKey) ==
    UNION { { [ i \in 1..n |->
                  Page(i, itemKey, counts[i], tokenKey,
                       IF i < n THEN Tok(i + 1) ELSE last) ] :
              counts \in [ 1..n -> -1..MaxPageLen ],
              last \in { Absent, NoneVal, "" } } :
            n \in 1..MaxPages }

\* The page a list request is answered with: the first page when the request
\* carries no token, else the page its token names.
PageIndex(listing, params, tokenKey) ==
    IF ~HasKey(params, tokenKey) THEN { 1 }
    ELSE { i \in 1..Len(listing) : Tok(i) = params[tokenKey] }

\* The records a get_* operation may describe.
Records(key) ==
    IF key = "Tags"
    THEN { EmptyDict, [ Environment |-> "Test" ] }
    ELSE { [ Id |-> "id-1" ], [ Id |-> "id-2", Status |-> "AVAILABLE" ] }

\* The successful responses of a remote operation that is not paged.
Responses(m) ==
    CASE m.ok \in { "get", "index" } ->
            { Dict1(m.key, r) : r \in Records(m.key) }
      [] m.ok = "response" /\ m.key # "" ->
            { Dict1(m.key, id) : id \in { "id-1", "id-2" } }
      [] OTHER -> { EmptyDict }

\* The error codes every administration operation may report.
CommonErrors ==
    { "InvalidRequestException", "AccessDeniedException",
      "ThrottlingException", "InternalServiceErrorException" }

\* The operations that create a resource.
CreateOps ==
    { "create_accessor", "create_member", "create_network", "create_node" }

\* The operations whose request carries a ClientRequestToken.
TokenOps == CreateOps \cup { "create_proposal" }

\* The operations that name no existing resource in their request.
RootOps ==
    { "create_accessor", "create_network", "list_accessors", "list_networks" }

\* The error codes operation `op` of the administration service may report
\* besides the common ones.
OperationErrors(op) ==
    (IF op \in CreateOps
     THEN { "ResourceAlreadyExistsException", "ResourceLimitExceededException",
            "TooManyTagsException" }
     ELSE { })
    \cup (IF op \in RootOps THEN { } ELSE { "ResourceNotFoundException" })

\* The exceptions a remote call may raise: the errors the operation reports,
\* an error code the client has no class for, and a failure to reach the
\* endpoint.
Faults(m) ==
    IF m.svc = "admin"
    THEN { ClientError(c, m.op, ModeledErrors) :
             c \in CommonErrors \cup OperationErrors(m.op)
                     \cup { UnmodeledCode } }
         \cup { BotoCoreError(m.op) }
    ELSE { ClientError(c, m.op, QueryErrors) :
             c \in QueryErrors \cup { UnmodeledCode } }
         \cup { BotoCoreError(m.op) }

\* The exceptions a page request inside a pagination loop may raise.
PageFaults(m) ==
    { ClientError("ThrottlingException", m.op, ModeledErrors),
      BotoCoreError(m.op) }

----------------------------------------------------------------------------
(* State *)

VARIABLES
    pc,           \* where the caller is: "idle", "wait", ..., "done"
    method,       \* the wrapper method being executed
    listing,      \* the pages the remote holds for the current call
    requests,     \* the requests sent to the remote during the current call
    outstanding,  \* requests sent and not yet answered
    served,       \* the responses received during the current call
    faults,       \* the exceptions the remote raised during the current call
    acc,          \* the local list a pagination loop accumulates
    next_token,   \* the local next_token of a pagination loop
    result,       \* what the call handed to the caller
    uuids,        \* how many values uuid.uuid4() has produced so far
    resources     \* the resources the remote has created, by request token

vars == << pc, method, listing, requests, outstanding, served, faults, acc,
           next_token, result, uuids, resources >>

NoMethod == Method("", "", "", {}, "", "", "")

Init ==
    /\ pc = "idle"
    /\ method = NoMethod
    /\ listing = << >>
    /\ requests = << >>
    /\ outstanding = 0
    /\ served = << >>
    /\ faults = << >>
    /\ acc = << >>
    /\ next_token = NoneVal
    /\ result = NoResult
    /\ uuids = 0
    /\ resources = { }

\* A list_* method that forgets to forward next_token.
ListParams_dropping_token(m, token) == EmptyDict

\* The request a list_* method assembles: NextToken only `if next_token:`.
ListParams(m, token) ==
    IF Truthy(token) THEN Dict1(TokenKey(m), token) ELSE EmptyDict

\* `str(uuid.uuid4())`: the n-th value produced differs from all before it.
Uuid4(n) == << "uuid4", n >>

\* Keyword arguments in which the loop variable `member_id` of the Removals
\* comprehension has overwritten the parameter of the same name.
ProposalParams_leaking(m) ==
    [ ClientRequestToken |-> Uuid4(uuids + 1),
      NetworkId |-> m.network_id,
      MemberId |-> IF ListTruthy(m.removals)
                   THEN m.removals[1][Len(m.removals[1])]
                   ELSE m.member_id,
      Actions |-> Actions(m.invitations, m.removals) ]

\* The keyword arguments of the remote create_proposal call. The loop
\* variable of a list comprehension is local to it, so MemberId is the
\* parameter member_id.
ProposalParams(m) ==
    [ ClientRequestToken |-> Uuid4(uuids + 1),
      NetworkId |-> m.network_id,
      MemberId |-> m.member_id,
      Actions |-> Actions(m.invitations, m.removals) ]

\* The request a method sends: the operation and its keyword arguments.
Request(m, token) ==
    [ op |-> m.op,
      params |->
        CASE m.paged -> ListParams(m, token)
          [] m.op = "create_proposal" -> ProposalParams(m)
          [] m.op = "get_transaction" /\ m.svc = "query" ->
                Payload(m.network, m.transaction_hash, m.transaction_id)
          [] m.op \in CreateOps ->
                Dict1("ClientRequestToken", Uuid4(uuids + 1))
          [] OTHER -> EmptyDict ]

\* The next_token arguments a caller passes to a list_* method.
TokenArgs(m) ==
    IF m.tokenArg THEN { NoneVal, "" } \cup { Tok(i) : i \in 2..MaxPages }
    ELSE { NoneVal }

\* The caller invokes a wrapper method that makes one remote call.
Call(m, token) ==
    /\ pc = "idle"
    /\ method' = m
    /\ IF m.pre # ""
       THEN /\ result' = Handle(m, Builtin(m.pre, m.op))
            /\ pc' = "done"
            /\ UNCHANGED << requests, outstanding, uuids >>
       ELSE /\ requests' = Append(requests, Request(m, token))
            /\ outstanding' = outstanding + 1
            /\ uuids' = IF m.op \in TokenOps THEN uuids + 1 ELSE uuids
            /\ pc' = "wait"
            /\ UNCHANGED result
    /\ UNCHANGED << listing, served, faults, acc, next_token, resources >>

\* The remote serves a create request: a new resource, unless it has served
\* a request of the same operation with the same ClientRequestToken before.
Created(rs, request) ==
    rs \cup { [ op |-> request.op,
                token |-> request.params["ClientRequestToken"] ] }

\* The remote operation returns; the method returns from its try body.
\* A paged operation answers from the listing the remote holds.
RemoteReturn ==
    /\ pc = "wait"
    /\ IF method.paged
       THEN \E pages \in Listings(method.key, TokenKey(method)) :
              \E i \in PageIndex(pages, requests[Len(requests)].params,
                                 TokenKey(method)) :
                /\ listing' = pages
                /\ served' = Append(served, pages[i])
                /\ result' = OnSuccess(method, pages[i])
       ELSE \E response \in Responses(method) :
              /\ listing' = listing
              /\ served' = Append(served, response)
              /\ result' = OnSuccess(method, response)
    /\ resources' =
         IF method.op \in TokenOps
         THEN Created(resources, requests[Len(requests)])
         ELSE resources
    /\ outstanding' = outstanding - 1
    /\ pc' = "done"
    /\ UNCHANGED << method, requests, faults, acc, next_token, uuids >>

\* The remote operation raises; the method's except clauses decide.
RemoteRaise ==
    /\ pc = "wait"
    /\ \E e \in Faults(method) :
         /\ faults' = Append(faults, e)
         /\ result' = Handle(method, e)
    /\ outstanding' = outstanding - 1
    /\ pc' = "done"
    /\ UNCHANGED << method, listing, requests, served, acc, next_token >>
    /\ UNCHANGED << uuids, resources >>

\* The caller takes the result; the next call starts afresh.
Return ==
    /\ pc = "done"
    /\ pc' = "idle"
    /\ method' = NoMethod
    /\ listing' = << >>
    /\ requests' = << >>
    /\ outstanding' = 0
    /\ served' = << >>
    /\ faults' = << >>
    /\ acc' = << >>
    /\ next_token' = NoneVal
    /\ result' = NoResult
    /\ uuids' = 0
    /\ resources' = { }

\* The identifiers a caller passes.
Ids == { "id-1", "id-2" }

\* The optional lists a caller passes as invitations or removals.
ListArgs ==
    { NoList, SomeList(<< >>), SomeList(<< "id-2", "id-1" >>) }
    \cup { SomeList(<< i >>) : i \in Ids }

\* The caller invokes create_proposal.
CreateProposal ==
    \E member_id \in Ids :
      \E invitations \in ListArgs :
        \E removals \in ListArgs :
          Call(create_proposal("n-123", member_id, invitations, removals),
               NoneVal)

\* The networks and the optional identifiers a caller passes.
Networks == { "ETHEREUM_MAINNET", "BITCOIN_MAINNET" }

OptionalIds(id) == { NoneVal, "", id }

\* The caller invokes get_transaction of the query wrapper.
GetTransaction ==
    \E network \in Networks :
      \E transaction_hash \in OptionalIds("0xabc") :
        \E transaction_id \in OptionalIds("tx-1") :
          Call(get_transaction(network, transaction_hash, transaction_id),
               NoneVal)

\* The vote values a caller passes.
Votes == { "YES", "NO", "yes", "ABSTAIN", "" }

\* The caller invokes vote_on_proposal: `return False` ahead of the try
\* statement for a vote that is neither 'YES' nor 'NO'.
VoteOnProposal ==
    \E vote \in Votes :
      IF ValidVote(vote)
      THEN Call(vote_on_proposal(vote), NoneVal)
      ELSE /\ pc = "idle"
           /\ method' = vote_on_proposal(vote)
           /\ result' = Returned("bool", FALSE)
           /\ pc' = "done"
           /\ UNCHANGED << listing, requests, outstanding, served, faults,
                           acc, next_token, uuids, resources >>

\* The caller invokes a create_* method a second time with the arguments of
\* the call that has just ended.
Retry ==
    /\ pc = "done"
    /\ method.kind = "call"
    /\ method.op \in TokenOps
    /\ uuids < MaxCalls
    /\ served' = << >>
    /\ faults' = << >>
    /\ IF method.pre # ""
       THEN /\ result' = Handle(method, Builtin(method.pre, method.op))
            /\ requests' = << >>
            /\ pc' = "done"
            /\ UNCHANGED << outstanding, uuids >>
       ELSE /\ requests' = << Request(method, NoneVal) >>
            /\ outstanding' = outstanding + 1
            /\ uuids' = uuids + 1
            /\ result' = NoResult
            /\ pc' = "wait"
    /\ UNCHANGED << method, listing, acc, next_token, resources >>

\* The caller constructs a ManagedBlockchainAdmin and invokes the method
\* `name` on it. __init__ evaluates `boto3.client(...)`: NameError unless the
\* module has imported boto3. A name the class does not define is an
\* AttributeError.
AdminInvoke ==
    /\ pc = "idle"
    /\ \E name \in { "create_network", "delete_member" } :
         LET m == [ ManagedBlockchainAdmin_create_network
                      EXCEPT !.name = IF name = "create_network"
                                      THEN @
                                      ELSE "ManagedBlockchainAdmin.delete_member",
                             !.op = name ]
         IN  /\ method' = m
             /\ IF "boto3" \notin ManagedBlockchainAdmin.imports
                THEN /\ result' = Raised(Builtin("NameError", "__init__"))
                     /\ pc' = "done"
                     /\ UNCHANGED << requests, outstanding, uuids >>
                ELSE IF name \notin ManagedBlockchainAdmin.methods
                THEN /\ result' = Raised(Builtin("AttributeError", name))
                     /\ pc' = "done"
                     /\ UNCHANGED << requests, outstanding, uuids >>
                ELSE /\ requests' = Append(requests, Request(m, NoneVal))
                     /\ outstanding' = outstanding + 1
                     /\ uuids' = uuids
                     /\ pc' = "wait"
                     /\ UNCHANGED result
    /\ UNCHANGED << listing, served, faults, acc, next_token, resources >>

CallAny ==
    \E m \in Methods :
      \E token \in TokenArgs(m) :
        Call(m, token)

----------------------------------------------------------------------------
(* get_all_*: the pagination loops of the administration wrappers *)

\* A loop never runs longer than the listing has pages; the guard keeps a
\* loop that fails to advance from growing its list without end.
MaxRequests == MaxPages + 1

\* The loop body assigning the page's items instead of extending the list.
Accumulate_assigning(xs, response, key) ==
    IF HasKey(response, key) THEN response[key] ELSE xs

\* `if 'Accessors' in response: accessors.extend(response['Accessors'])`
Accumulate(xs, response, key) ==
    IF HasKey(response, key) THEN Extend(xs, response[key]) ELSE xs

\* `accessors = []; next_token = None` and entry into `while True`.
GetAllStart(g, pages) ==
    /\ pc = "idle"
    /\ method' = g
    /\ listing' = pages
    /\ acc' = << >>
    /\ next_token' = NoneVal
    /\ pc' = "loop"
    /\ UNCHANGED << requests, outstanding, served, faults, result >>
    /\ UNCHANGED << uuids, resources >>

\* `response = self.list_accessors(next_token=next_token, ...)`: list_*
\* assembles its parameters and calls the remote operation.
ListRequest ==
    /\ pc = "loop"
    /\ Len(requests) < MaxRequests
    /\ requests' = Append(requests, Request(method.list, next_token))
    /\ outstanding' = outstanding + 1
    /\ pc' = "list_wait"
    /\ UNCHANGED << method, listing, served, faults, acc, next_token, result >>
    /\ UNCHANGED << uuids, resources >>

\* A loop body that asks for the same page again when list_* returned {}.
LoopBody_retrying(response) ==
    IF response = EmptyDict
    THEN /\ pc' = "loop"
         /\ UNCHANGED << acc, next_token, result >>
    ELSE LET items == Accumulate(acc, response, method.key)
             token == DictGet(response, "NextToken", NoneVal)
         IN  /\ acc' = items
             /\ next_token' = token
             /\ IF ~Truthy(token)
                THEN /\ result' = Returned("list", items)
                     /\ pc' = "done"
                ELSE /\ pc' = "loop"
                     /\ UNCHANGED result

\* A loop body without `if not next_token: break`, collecting nothing.
LoopBody_never_leaving(response) ==
    /\ next_token' = DictGet(response, "NextToken", NoneVal)
    /\ pc' = "loop"
    /\ UNCHANGED << acc, result >>

\* The rest of the loop body, once list_* has returned `response`:
\* collect the items, take the token, leave the loop when it is falsy.
LoopBody(response) ==
    LET items == Accumulate(acc, response, method.key)
        token == DictGet(response, "NextToken", NoneVal)
    IN  /\ acc' = items
        /\ next_token' = token
        /\ IF ~Truthy(token)
           THEN /\ result' = Returned("list", items)
                /\ pc' = "done"
           ELSE /\ pc' = "loop"
                /\ UNCHANGED result

\* The remote answers the page request; list_* returns the response.
ListReturn ==
    /\ pc = "list_wait"
    /\ \E i \in PageIndex(listing, requests[Len(requests)].params,
                          TokenKey(method.list)) :
         /\ served' = Append(served, listing[i])
         /\ LoopBody(OnSuccess(method.list, listing[i]).v)
    /\ outstanding' = outstanding - 1
    /\ UNCHANGED << method, listing, requests, faults >>
    /\ UNCHANGED << uuids, resources >>

\* The remote raises on the page request: list_* returns {} when its except
\* clause matches, else the exception leaves list_* and get_all_* alike.
ListRaise ==
    /\ pc = "list_wait"
    /\ \E e \in PageFaults(method.list) :
         /\ faults' = Append(faults, e)
         /\ LET r == Handle(method.list, e)
            IN  IF r.kind = "raise"
                THEN /\ result' = r
                     /\ pc' = "done"
                     /\ UNCHANGED << acc, next_token >>
                ELSE LoopBody(r.v)
    /\ outstanding' = outstanding - 1
    /\ UNCHANGED << method, listing, requests, served >>
    /\ UNCHANGED << uuids, resources >>

\* The listings of a remote that never returns an empty token: the last
\* page carries the token of a page of the listing again. Their pages hold
\* no items.
CyclicListings(itemKey, tokenKey) ==
    UNION { { [ i \in 1..n |->
                  Page(i, itemKey, counts[i], tokenKey,
                       IF i < n THEN Tok(i + 1) ELSE Tok(back)) ] :
              counts \in [ 1..n -> { -1, 0 } ],
              back \in 1..n } :
            n \in 1..MaxPages }

\* A log of what was sent or served that keeps its first MaxRequests - 1
\* entries and the latest one: the loop itself keeps no such log and has no
\* cap.
Log(xs, x) ==
    IF Len(xs) < MaxRequests THEN Append(xs, x)
    ELSE [ xs EXCEPT ![Len(xs)] = x ]

\* get_all_* is called, whatever the remote holds.
GetAllLive ==
    \E g \in GetAllMethods :
      \E pages \in Listings(g.list.key, TokenKey(g.list))
                     \cup CyclicListings(g.list.key, TokenKey(g.list)) :
        GetAllStart(g, pages)

\* The list_* call of the loop: `while True` has no bound on its iterations.
ListRequestLive ==
    /\ pc = "loop"
    /\ requests' = Log(requests, Request(method.list, next_token))
    /\ outstanding' = outstanding + 1
    /\ pc' = "list_wait"
    /\ UNCHANGED << method, listing, served, faults, acc, next_token, result >>
    /\ UNCHANGED << uuids, resources >>

\* The remote answers the page request; list_* returns the response and the
\* loop body runs.
ListReturnLive ==
    /\ pc = "list_wait"
    /\ \E i \in PageIndex(listing, requests[Len(requests)].params,
                          TokenKey(method.list)) :
         /\ served' = Log(served, listing[i])
         /\ LoopBody(OnSuccess(method.list, listing[i]).v)
    /\ outstanding' = outstanding - 1
    /\ UNCHANGED << method, listing, requests, faults >>
    /\ UNCHANGED << uuids, resources >>

GetAllAny ==
    \E g \in GetAllMethods :
      \E pages \in Listings(g.list.key, TokenKey(g.list)) :
        GetAllStart(g, pages)

----------------------------------------------------------------------------
(* paginate_list_*: the query paginator's loops over the SDK paginator *)

\* The page entries a test or a service may file the items under.
PageKeys(p) == { p.key, "ledgerState" }

\* The loop body assigning the page's list instead of extending `results`.
Collect_assigning(xs, page, key) == DictGet(page, key, << >>)

\* `results.extend(page.get("transactions", []))`
Collect(xs, page, key) == Extend(xs, DictGet(page, key, << >>))

\* get_paginator, the request parameters, paginator.paginate(...) and
\* `results = []`: nothing is sent until the iterator is advanced.
PaginateStart(p, pages) ==
    /\ pc = "idle"
    /\ method' = p
    /\ listing' = pages
    /\ acc' = << >>
    /\ next_token' = NoneVal
    /\ pc' = "iterate"
    /\ UNCHANGED << requests, outstanding, served, faults, result >>
    /\ UNCHANGED << uuids, resources >>

\* `for page in response_iterator`: the SDK paginator requests the next page,
\* passing the token of the page before it.
PageRequest ==
    /\ pc = "iterate"
    /\ Len(requests) < MaxRequests
    /\ requests' = Append(requests, [ op |-> method.op,
                                      params |-> ListParams(method, next_token) ])
    /\ outstanding' = outstanding + 1
    /\ pc' = "page_wait"
    /\ UNCHANGED << method, listing, served, faults, acc, next_token, result >>
    /\ UNCHANGED << uuids, resources >>

\* The paginator yields the page; the loop body collects its items; the
\* iteration ends, and the method returns `results`, after a page without
\* a token.
PageYield ==
    /\ pc = "page_wait"
    /\ \E i \in PageIndex(listing, requests[Len(requests)].params,
                          TokenKey(method)) :
         LET page   == listing[i]
             items  == Collect(acc, page, method.key)
             token  == DictGet(page, TokenKey(method), NoneVal)
         IN  /\ served' = Append(served, page)
             /\ acc' = items
             /\ next_token' = token
             /\ IF ~Truthy(token)
                THEN /\ result' = Returned("list", items)
                     /\ pc' = "done"
                ELSE /\ pc' = "iterate"
                     /\ UNCHANGED result
    /\ outstanding' = outstanding - 1
    /\ UNCHANGED << method, listing, requests, faults >>
    /\ UNCHANGED << uuids, resources >>

\* Fetching the page raises: an except clause of the method returns the
\* error dictionary.
PageRaise ==
    /\ pc = "page_wait"
    /\ \E e \in PageFaults(method) :
         /\ faults' = Append(faults, e)
         /\ result' = IF method.fail = "results"
                      THEN Returned("list", acc)
                      ELSE Handle(method, e)
    /\ outstanding' = outstanding - 1
    /\ pc' = "done"
    /\ UNCHANGED << method, listing, requests, served, acc, next_token >>
    /\ UNCHANGED << uuids, resources >>

PaginateAny ==
    \E p \in PaginateMethods :
      \E k \in PageKeys(p) :
        \E pages \in Listings(k, TokenKey(p)) :
          PaginateStart(p, pages)

\* The operations of the administration service that list resources, and
\* the page entry each files its items under.
ListOperations == { "list_networks", "list_members" }

ServiceKey(op) == IF op = "list_networks" THEN "Networks" ELSE "Members"

\* paginate_operation: get_paginator returns None, and the method [], when
\* the client cannot paginate the operation; else `results = []` and the
\* loop over paginator.paginate(**kwargs).
PaginateOperation ==
    /\ pc = "idle"
    /\ \E operation_name \in ListOperations \cup { "get_network" } :
         \E can_paginate \in
               IF operation_name \in ListOperations THEN BOOLEAN ELSE { FALSE } :
           /\ method' = paginate_operation(operation_name)
           /\ IF can_paginate
              THEN /\ \E pages \in Listings(ServiceKey(operation_name),
                                            "NextToken") :
                        listing' = pages
                   /\ pc' = "iterate"
                   /\ UNCHANGED result
              ELSE /\ listing' = << >>
                   /\ result' = Returned("list", << >>)
                   /\ pc' = "done"
    /\ acc' = << >>
    /\ next_token' = NoneVal
    /\ UNCHANGED << requests, outstanding, served, faults, uuids, resources >>

----------------------------------------------------------------------------
(* wait_for_*: the SDK waiter polls the resource *)

\* botocore.exceptions.WaiterError, raised by waiter.wait().
WaiterError(waiter) ==
    [ cls |-> "WaiterError", base |-> "BotoCoreError", code |-> "",
      op |-> waiter ]

\* The states a poll may find the resource in.
Statuses == { "CREATING", "AVAILABLE", "CREATE_FAILED", "DELETED" }

\* The exceptions a poll may raise.
PollFaults(m) ==
    { ClientError(c, m.op, ModeledErrors) :
        c \in { "ThrottlingException", "ResourceNotFoundException" } }
    \cup { BotoCoreError(m.op) }

\* The caller invokes a wait_for_* method.
WaitStart ==
    /\ pc = "idle"
    /\ \E max_attempts \in 1..MaxAttempts :
         \E m \in { wait_for_network_available(max_attempts),
                    wait_for_member_available(max_attempts),
                    wait_for_node_available(max_attempts) } :
           method' = m
    /\ pc' = "get_waiter"
    /\ UNCHANGED << listing, requests, outstanding, served, faults, acc,
                    next_token, result, uuids, resources >>

\* `waiter = self.client.get_waiter(...)`: the client returns the waiter, or
\* raises ValueError when the service defines no waiter of that name.
GetWaiter ==
    /\ pc = "get_waiter"
    /\ \/ /\ pc' = "polling"
          /\ UNCHANGED result
       \/ /\ result' = Handle(method, Builtin("ValueError", "get_waiter"))
          /\ pc' = "done"
    /\ UNCHANGED << method, listing, requests, outstanding, served, faults,
                    acc, next_token, uuids, resources >>

\* waiter.wait(...) polls the resource once more.
Poll ==
    /\ pc = "polling"
    /\ Len(requests) < method.max_attempts
    /\ requests' = Append(requests, [ op |-> method.op, params |-> EmptyDict ])
    /\ outstanding' = outstanding + 1
    /\ pc' = "poll_wait"
    /\ UNCHANGED << method, listing, served, faults, acc, next_token, result,
                    uuids, resources >>

\* The poll is answered. The waiter returns when the resource is available,
\* raises WaiterError when it has failed or the attempts are used up, and
\* polls again otherwise; the method returns True after wait() has returned
\* and False from below its except clause.
PollReturn ==
    /\ pc = "poll_wait"
    /\ \E status \in Statuses :
         /\ served' = Append(served, [ Status |-> status ])
         /\ CASE status = "AVAILABLE" ->
                   /\ result' = Returned("bool", TRUE)
                   /\ pc' = "done"
              [] status \in { "CREATE_FAILED", "DELETED" }
                   \/ Len(requests) >= method.max_attempts ->
                   /\ result' = Handle(method, WaiterError(method.waiter))
                   /\ pc' = "done"
              [] OTHER ->
                   /\ pc' = "polling"
                   /\ UNCHANGED result
    /\ outstanding' = outstanding - 1
    /\ UNCHANGED << method, listing, requests, faults, acc, next_token,
                    uuids, resources >>

\* The poll raises. The waiter turns an error response of the service into
\* WaiterError; any other exception leaves wait() as it is.
PollRaise ==
    /\ pc = "poll_wait"
    /\ \E e \in PollFaults(method) :
         /\ faults' = Append(faults, e)
         /\ result' = IF e.base = "ClientError"
                      THEN Handle(method, WaiterError(method.waiter))
                      ELSE Handle(method, e)
    /\ outstanding' = outstanding - 1
    /\ pc' = "done"
    /\ UNCHANGED << method, listing, requests, served, acc, next_token,
                    uuids, resources >>

----------------------------------------------------------------------------

\* The exceptions `self.client.get_paginator(...)` may raise.
PaginatorFaults ==
    { ClientError(c, "get_paginator", QueryErrors) : c \in QueryErrors }
    \cup { BotoCoreError("get_paginator") }

\* `paginator = self.client.get_paginator(...)` raises, first statement of
\* the try body: the except clauses decide, nothing has been requested.
GetPaginatorRaise ==
    /\ pc = "idle"
    /\ \E p \in PaginateMethods :
         \E e \in PaginatorFaults :
           /\ method' = p
           /\ faults' = Append(faults, e)
           /\ result' = Handle(p, e)
    /\ pc' = "done"
    /\ UNCHANGED << listing, requests, outstanding, served, acc, next_token >>
    /\ UNCHANGED << uuids, resources >>

----------------------------------------------------------------------------

Next ==
    \/ CallAny
    \/ CreateProposal
    \/ AdminInvoke
    \/ GetTransaction
    \/ VoteOnProposal
    \/ Retry
    \/ RemoteReturn
    \/ RemoteRaise
    \/ GetAllAny
    \/ ListRequest
    \/ ListReturn
    \/ ListRaise
    \/ PaginateAny
    \/ GetPaginatorRaise
    \/ PaginateOperation
    \/ WaitStart
    \/ GetWaiter
    \/ Poll
    \/ PollReturn
    \/ PollRaise
    \/ PageRequest
    \/ PageYield
    \/ PageRaise
    \/ Return

Spec == Init /\ [][Next]_vars

\* One get_all_* call followed to its end, or for ever. The loop is
\* sequential code, so it goes on to its next statement; the SDK call
\* returns or raises.
LiveNext ==
    \/ GetAllLive
    \/ ListRequestLive
    \/ ListReturnLive
    \/ ListRaise

LiveSpec ==
    /\ Init
    /\ [][LiveNext]_vars
    /\ WF_vars(ListRequestLive)
    /\ WF_vars(ListReturnLive \/ ListRaise)

----------------------------------------------------------------------------
(* Properties *)

RECURSIVE ConcatUnder(_, _)
\* The items filed under `key` in each of `pages`, page after page; a page
\* without the entry contributes nothing.
ConcatUnder(key, pages) ==
    IF Len(pages) = 0 THEN << >>
    ELSE DictGet(Head(pages), key, << >>) \o ConcatUnder(key, Tail(pages))

\* The pages of a listing up to and including the first one whose token is
\* empty or absent.
UpToLastPage(pages, tokenKey) ==
    LET ends(i) == ~Truthy(DictGet(pages[i], tokenKey, NoneVal))
        last == CHOOSE i \in 1..Len(pages) :
                    ends(i) /\ \A j \in 1..(i - 1) : ~ends(j)
    IN  SubSeq(pages, 1, last)

Done(names) == pc = "done" /\ method.name \in names

\* C1: no wrapper method lets a remote-service exception (invalid request,
\* access denied, not found, throttling, resource limit, internal error)
\* reach its caller: every such exception becomes a returned sentinel.
C1_NoRemoteErrorPropagates ==
    ~( /\ result.kind = "raise"
       /\ result.exc.base = "ClientError"
       /\ result.exc.code \in RemoteServiceErrors )

\* The response entry each get_all_* method is to collect.
ItemKeyOf ==
    [ get_all_accessors |-> "Accessors", get_all_invitations |-> "Invitations",
      get_all_members |-> "Members", get_all_networks |-> "Networks",
      get_all_nodes |-> "Nodes", get_all_proposals |-> "Proposals",
      get_all_proposal_votes |-> "ProposalVotes" ]

\* C2: when every page request is served, get_all_* returns exactly the
\* concatenation, in page order, of the item lists of the pages up to and
\* including the first page whose token is empty or absent.
C2_GetAllConcatenatesPages ==
    (pc = "done" /\ method.kind = "get_all" /\ faults = << >>) =>
        result = Returned("list",
                          ConcatUnder(ItemKeyOf[method.name],
                                      UpToLastPage(listing, "NextToken")))

C2_Witness ==
    /\ pc = "done" /\ method.kind = "get_all" /\ faults = << >>
    /\ Len(served) >= 2
    /\ result.kind = "return" /\ Len(result.v) >= 3

\* C3: the page requests of one get_all_* call go out one at a time: every
\* request is outstanding or answered and at most one is outstanding; the
\* first carries no NextToken; request k+1 exists only once response k has
\* been received, that response carried a non-empty token, and the request
\* carries exactly that token.
C3_PageRequestsInSequence ==
    method.kind = "get_all" =>
        /\ outstanding \in { 0, 1 }
        /\ Len(requests) = Len(served) + Len(faults) + outstanding
        /\ Len(requests) >= 1 => ~HasKey(requests[1].params, "NextToken")
        /\ \A k \in 1..(Len(requests) - 1) :
              /\ k <= Len(served)
              /\ HasKey(served[k], "NextToken")
              /\ Truthy(served[k]["NextToken"])
              /\ requests[k + 1].params = Dict1("NextToken", served[k]["NextToken"])

C3_Witness ==
    /\ method.kind = "get_all"
    /\ Len(requests) = 2 /\ outstanding = 1
    /\ requests[2].params = Dict1("NextToken", served[1]["NextToken"])

C5_ReturnsResponseEnvelope ==
    (Done({ "get_member", "list_tags_for_resource" }) /\ faults = << >>) =>
        LET key == IF method.name = "get_member" THEN "Member" ELSE "Tags"
        IN  /\ result.kind = "return"
            /\ HasKey(result.v, key)
            /\ result.v[key] = served[1][key]

\* C6: create_member invokes the remote create_member operation and, when
\* that call does not fail, returns its response unchanged.
C6_CreateMemberReturnsResponse ==
    (Done({ "create_member" }) /\ faults = << >>) =>
        /\ Len(requests) = 1
        /\ requests[1].op = "create_member"
        /\ Len(served) = 1
        /\ result = Returned("dict", served[1])

\* C7: when the remote result spans several pages, the 'transactions' list
\* of the dictionary list_transactions returns holds the items of all the
\* pages, in page order.
C7_ListTransactionsAllPages ==
    ( /\ Done({ "list_transactions" })
      /\ faults = << >>
      /\ ~HasKey(requests[1].params, "nextToken")
      /\ Len(listing) >= 2 ) =>
        /\ result.kind = "return"
        /\ DictGet(result.v, "transactions", << >>)
             = ConcatUnder("transactions", listing)

\* C8: when the remote operation raises a ClientError, list_transactions,
\* list_transaction_events, list_token_balances and
\* list_filtered_transaction_events raise nothing and return a dictionary
\* whose 'error' text contains the remote error code.
C8_ClientErrorBecomesErrorDict ==
    ( /\ Done({ "list_transactions", "list_transaction_events",
                "list_token_balances", "list_filtered_transaction_events" })
      /\ Len(faults) = 1
      /\ faults[1].base = "ClientError" ) =>
        /\ result.kind = "return"
        /\ result.ty = "dict"
        /\ HasKey(result.v, "error")
        /\ Contains(result.v["error"], faults[1].code)

C8_Witness ==
    /\ Done({ "list_transactions" })
    /\ Len(faults) = 1
    /\ faults[1].code = "ValidationException"
    /\ result.kind = "return"
    /\ HasKey(result.v, "error")

\* The result key of each paginated query operation.
ResultKeyOf ==
    [ paginate_list_transactions |-> "transactions",
      paginate_list_asset_contracts |-> "contracts",
      paginate_list_transaction_events |-> "events",
      paginate_list_token_balances |-> "tokenBalances" ]

\* C9: paginate_list_transactions, paginate_list_asset_contracts,
\* paginate_list_transaction_events and paginate_list_token_balances return
\* the flat list of the items found under the operation's result key in
\* every page the SDK paginator yielded, in page order; a page lacking the
\* key contributes nothing.
C9_PaginateConcatenatesPages ==
    ( /\ Done(DOMAIN ResultKeyOf)
      /\ method.kind = "paginate"
      /\ faults = << >> ) =>
        result = Returned("list", ConcatUnder(ResultKeyOf[method.name], served))

C9_Witness ==
    /\ Done({ "paginate_list_token_balances" })
    /\ faults = << >>
    /\ Len(served) = 2
    /\ ~HasKey(served[1], "tokenBalances")
    /\ HasKey(served[2], "tokenBalances")
    /\ result.kind = "return" /\ Len(result.v) = 2

\* The list a page carries, under whichever entry it is filed.
ItemsOn(page) ==
    LET keys == { k \in DOMAIN page : k # "nextToken" }
    IN  IF keys = {} THEN << >> ELSE page[CHOOSE k \in keys : TRUE]

RECURSIVE AllItems(_)
AllItems(pages) ==
    IF Len(pages) = 0 THEN << >>
    ELSE ItemsOn(Head(pages)) \o AllItems(Tail(pages))

\* C10: paginate_list_filtered_transaction_events returns every item of
\* every page the paginator yielded, in page order, also when the pages
\* carry their items under 'ledgerState'.
C10_FilteredEventsAllItems ==
    ( /\ Done({ "paginate_list_filtered_transaction_events" })
      /\ faults = << >> ) =>
        result = Returned("list", AllItems(served))

\* C11: when obtaining the paginator or fetching a page raises a ClientError
\* or a BotoCoreError, a paginate_list_* method raises nothing and returns a
\* dictionary holding only an 'error' entry, the text of the exception, which
\* contains the error code of a ClientError; the items of the pages fetched
\* before the failure are not returned.
C11_PaginateErrorBecomesErrorDict ==
    ( /\ Done({ p.name : p \in PaginateMethods })
      /\ faults # << >> ) =>
        LET e == faults[Len(faults)]
        IN  /\ result.kind = "return"
            /\ result.ty = "dict"
            /\ DOMAIN result.v = { "error" }
            /\ result.v["error"] = StrOf(e)
            /\ e.base = "ClientError" => Contains(result.v["error"], e.code)

C11_Witness ==
    /\ Done({ p.name : p \in PaginateMethods })
    /\ faults # << >>
    /\ faults[1].base = "ClientError"
    /\ acc # << >>
    /\ result.ty = "dict"

\* The list_* methods of the administration wrappers.
AdminListNames ==
    { "list_accessors", "list_invitations", "list_networks", "list_nodes",
      "list_members", "list_proposals", "list_proposal_votes" }

\* C12: when the remote call succeeds, each list_* method of the
\* administration wrappers returns the remote response unchanged: the same
\* entries, item list and NextToken included.
C12_ListReturnsResponseUnchanged ==
    ( /\ Done(AdminListNames)
      /\ method.kind = "call"
      /\ method.tokenArg
      /\ faults = << >> ) =>
        /\ Len(served) = 1
        /\ result = Returned("dict", served[1])

C12_Witness ==
    /\ Done(AdminListNames)
    /\ method.kind = "call"
    /\ method.tokenArg
    /\ faults = << >>
    /\ HasKey(served[1], "NextToken")
    /\ Truthy(served[1]["NextToken"])
    /\ HasKey(served[1], method.key)
    /\ Len(served[1][method.key]) > 0
    /\ result.kind = "return"

\* C13: the create_* methods are idempotent: the same method invoked twice
\* with identical arguments makes the remote create at most one resource.
C13_CreateIsIdempotent ==
    Cardinality(resources) <= 1

\* C17: create_proposal invoked with a network id, a member id and no
\* action returns the response of the remote create_proposal, ProposalId
\* included.
C17_CreateProposalWithoutActions ==
    ( /\ Done({ "create_proposal" })
      /\ Actions(method.invitations, method.removals) = EmptyDict ) =>
        /\ result.kind = "return"
        /\ Len(served) = 1
        /\ result.v = served[1]
        /\ HasKey(served[1], "ProposalId")

\* C14: for a pageable operation, paginate_operation returns the items of
\* all pages, page after page: the items the pages of list_networks carry
\* under 'Networks', those of list_members under 'Members'.
C14_PaginateOperationAllItems ==
    ( /\ Done({ "paginate_operation" })
      /\ served # << >>
      /\ faults = << >> ) =>
        result = Returned("list", ConcatUnder(ServiceKey(method.op), served))

\* C15: a wait_for_* method returns True exactly when a poll, one of at
\* most max_attempts, found the resource available, and returns False in
\* every other case; it never polls more than max_attempts times.
C15_WaitReturnsAvailability ==
    ( /\ pc = "done"
      /\ method.kind = "wait" ) =>
        /\ Len(requests) <= method.max_attempts
        /\ result.kind = "return"
        /\ result.ty = "bool"
        /\ result.v <=> /\ served # << >>
                        /\ served[Len(served)].Status = "AVAILABLE"

\* C16: no wrapper retries. One invocation of a method that does not
\* paginate sends at most one request, whether it succeeds or fails; a
\* get_all_* call sends at most one request per page; and once a request has
\* failed the call ends without sending another.
C16_NoRetry ==
    /\ method.kind = "call" => Len(requests) <= 1
    /\ method.kind = "get_all" =>
          \A i, j \in DOMAIN requests :
            i # j => requests[i].params # requests[j].params
    /\ (method.kind \in { "call", "get_all" } /\ faults # << >>) =>
          /\ Len(faults) = 1
          /\ outstanding = 0
          /\ pc = "done"
          /\ Len(requests) = Len(served) + 1

C16_Witness ==
    /\ method.kind = "get_all"
    /\ pc = "done"
    /\ Len(requests) = 2
    /\ Len(faults) = 1

\* C18: a ManagedBlockchainAdmin can be constructed, and its delete_member
\* sends one remote delete_member request and returns the response of the
\* remote unchanged.
C18_AdminDeleteMemberForwards ==
    Done({ "ManagedBlockchainAdmin.delete_member" }) =>
        /\ result.kind = "return"
        /\ Len(requests) = 1
        /\ requests[1].op = "delete_member"
        /\ Len(served) = 1
        /\ result.v = served[1]

\* C19: get_transaction of the query wrapper never sends a request that
\* lacks both transactionHash and transactionId: with neither argument given
\* it raises ValueError and sends nothing, and every request it does send
\* carries at least one of the two.
C19_GetTransactionCarriesIdentifier ==
    (method.name = "get_transaction" /\ method.svc = "query") =>
        /\ \A i \in DOMAIN requests :
              \/ HasKey(requests[i].params, "transactionHash")
              \/ HasKey(requests[i].params, "transactionId")
        /\ ( /\ ~Truthy(method.transaction_hash)
             /\ ~Truthy(method.transaction_id) ) =>
              /\ requests = << >>
              /\ result.kind = "raise"
              /\ result.exc.cls = "ValueError"

\* C20: when a page request inside get_all_* fails with a BotoCoreError,
\* list_* returns {}, the loop stops, and get_all_* returns, as a plain list
\* and without raising, the items of the pages served before the failure.
C20_BotoCoreErrorTruncates ==
    ( /\ method.kind = "get_all"
      /\ pc = "done"
      /\ faults # << >>
      /\ faults[1].base = "BotoCoreError" ) =>
        /\ Len(requests) = Len(served) + 1
        /\ result.kind = "return"
        /\ result.ty = "list"
        /\ result.v = ConcatUnder(method.key, served)

C20_Witness ==
    /\ method.kind = "get_all"
    /\ pc = "done"
    /\ faults # << >>
    /\ faults[1].base = "BotoCoreError"
    /\ Len(served) >= 1
    /\ Len(listing) > Len(served)
    /\ result.kind = "return"
    /\ result.v # << >>

\* Whether the remote, asked page after page, comes to a page whose token
\* is empty or absent.
Terminating(pages) ==
    \E i \in DOMAIN pages : ~Truthy(DictGet(pages[i], "NextToken", NoneVal))

\* C21: get_all_* ends whenever the remote comes to a page with an empty or
\* absent token, and without a failure it ends only then, after one request
\* for each page up to and including that one; against a remote whose every
\* page carries a token the loop sends request after request for ever.
C21_GetAllTerminates ==
    /\ []( ( /\ method.kind = "get_all"
             /\ pc = "done"
             /\ faults = << >> ) =>
              /\ Terminating(listing)
              /\ Len(requests) = Len(UpToLastPage(listing, "NextToken"))
              /\ Len(served) = Len(requests) )
    /\ ( (method.kind = "get_all" /\ Terminating(listing)) ~> (pc = "done") )
    /\ ( ( /\ method.kind = "get_all"
           /\ ~Terminating(listing)
           /\ faults = << >>
           /\ pc = "loop" ) ~> (pc = "list_wait") )

C21_Witness ==
    /\ method.kind = "get_all"
    /\ pc = "done"
    /\ faults = << >>
    /\ Len(listing) = MaxPages
    /\ Len(requests) = MaxPages
    /\ ~Truthy(next_token)

\* C22: vote_on_proposal returns True only after it has sent the remote
\* vote_on_proposal request and that request has succeeded; for a vote other
\* than 'YES' and 'NO' it returns False and sends nothing.
C22_VoteReturnsTrueOnlyOnSuccess ==
    Done({ "vote_on_proposal" }) =>
        /\ ( /\ result.kind = "return"
             /\ result.ty = "bool"
             /\ result.v ) =>
              /\ Len(requests) = 1
              /\ requests[1].op = "vote_on_proposal"
              /\ Len(served) = 1
              /\ faults = << >>
        /\ method.vote \notin { "YES", "NO" } =>
              /\ requests = << >>
              /\ result.kind = "return"
              /\ result.ty = "bool"
              /\ ~result.v

C22_Witness ==
    /\ Done({ "vote_on_proposal" })
    /\ method.vote = "YES"
    /\ result.kind = "return"
    /\ result.ty = "bool"
    /\ result.v
    /\ Len(served) = 1

\* Whether an optional list argument was given and holds an element.
Given(o) == o # NoList /\ o[1] # << >>

C24_CreateProposalMemberId ==
    method.name = "create_proposal" =>
        \A i \in DOMAIN requests :
          LET params == requests[i].params
          IN  /\ params.MemberId = method.member_id
              /\ Given(method.removals) =>
                    /\ Len(params.Actions["Removals"]) = Len(method.removals[1])
                    /\ \A j \in DOMAIN method.removals[1] :
                          params.Actions["Removals"][j] =
                            [ MemberId |-> method.removals[1][j] ]
              /\ Given(method.invitations) =>
                    /\ Len(params.Actions["Invitations"])
                          = Len(method.invitations[1])
                    /\ \A j \in DOMAIN method.invitations[1] :
                          params.Actions["Invitations"][j] =
                            [ Principal |-> method.invitations[1][j] ]

C24_Witness ==
    /\ Done({ "create_proposal" })
    /\ Len(requests) = 1
    /\ method.member_id = "id-2"
    /\ method.removals = SomeList(<< "id-2", "id-1" >>)
    /\ method.invitations = SomeList(<< "id-2" >>)
    /\ requests[1].params.MemberId = "id-2"
    /\ result.kind = "return"

====
